---- MODULE Spec2Model ----
(***************************************************************************)
(* The persistent job queue of SpinesGUI: the SQLite job table             *)
(* (queue_db.py), the worker loop that claims and runs jobs (worker.py)    *)
(* and the monitor dialog that polls the table and cancels queued jobs     *)
(* (queue_monitor.py).                                                      *)
(***************************************************************************)
EXTENDS Integers, Sequences, FiniteSets, TLC

(* ------------------------------ bounds --------------------------------- *)
\* at most MaxJobs rows are ever inserted
MaxJobs == 3
\* datetime('now') takes the values 1..MaxTime
MaxTime == 2
\* at most MaxLogLines lines are written to the tailed log file
MaxLogLines == 3
\* at most MaxReads tail reads are recorded
MaxReads == 3

(* --------------------------- value domains ----------------------------- *)
\* SQL NULL of the timestamp columns started_at / finished_at
NULL == 0
\* SQL NULL of the text columns log_path / error (text is modelled as a tuple)
NULLT == <<>>
\* claim_next_job's None, and "no row fetched"
NoJob == 0
\* nobody holds the database write lock
NoOne == "none"

\* the processes running worker.main
Workers == {"w1", "w2"}
W1 == "w1"

\* the arguments of the enqueue_job calls
DefaultInput ==
  [exp_id |-> "exp/1", root_folder |-> "/data/a", mode |-> "all", force |-> FALSE]

\* arguments a producer may pass to enqueue_job
Inputs ==
  { [exp_id |-> "exp/1", root_folder |-> "/data/a", mode |-> "all", force |-> FALSE],
    [exp_id |-> "exp_2", root_folder |-> "/data/b", mode |-> "all", force |-> TRUE] }

\* the message carried by an exception of the job body
BodyErrors == {"disk full"}
\* the message of sqlite3.OperationalError
StoreError == "database is locked"

Statuses == {"queued", "running", "done", "failed", "canceled"}

VARIABLES
  jobs,        \* the jobs table: row id = index (AUTOINCREMENT, rows never deleted)
  now,         \* the value of datetime('now')
  lock,        \* holder of the database write lock (BEGIN IMMEDIATE), or NoOne
  pc,          \* pc[w]: where worker w stands in main()
  job,         \* job[w]: id of the Job claim_next_job returned to w, or NoJob
  row,         \* row[w]: id of the row fetched inside w's claim transaction
  tee,         \* tee[w]: sys.stdout / sys.stderr of w are replaced by a Tee
  err,         \* err[w]: traceback.format_exc() of the exception w caught
  returned,    \* returned[id]: how many claim_next_job calls returned row id
  mon,         \* what the monitor dialog rendered at its last refresh
  logfile,     \* the bytes of the job log file the monitor tails
  reads,       \* the tail reads so far: the text returned, the file size then
  raised       \* the errors that calls of producers have raised

vars ==
  <<jobs, now, lock, pc, job, row, tee, err, returned, mon, logfile, reads,
    raised>>
wvars == <<pc, job, row, tee, err>>
tvars == <<logfile, reads>>

Ids == 1..MaxJobs
RowIds(js) == 1..Len(js)

(* ------------------------------ queue_db ------------------------------- *)
\* INSERT INTO jobs (...) VALUES (..., 'queued'): column defaults for the rest
NewRow(inp, t) ==
  [exp_id |-> inp.exp_id, root_folder |-> inp.root_folder, mode |-> inp.mode,
   force |-> inp.force, status |-> "queued", created_at |-> t,
   started_at |-> NULL, finished_at |-> NULL, log_path |-> NULLT, error |-> NULLT]

\* mutant: a job whose arguments equal those of a row still queued is not
\* inserted again
enqueue_job_dedup(js, inp, t) ==
  IF \E i \in RowIds(js) :
       /\ js[i].status = "queued"
       /\ js[i].exp_id = inp.exp_id /\ js[i].root_folder = inp.root_folder
       /\ js[i].mode = inp.mode /\ js[i].force = inp.force
  THEN js
  ELSE Append(js, NewRow(inp, t))

enqueue_job(js, inp, t) == Append(js, NewRow(inp, t))

\* cur.lastrowid after the insert
lastrowid(js) == Len(js)

\* mutant: the update without "AND status='queued'"
cancel_job_unconditional(js, id, t) ==
  [i \in RowIds(js) |->
     IF i = id THEN [js[i] EXCEPT !.status = "canceled", !.finished_at = t]
     ELSE js[i]]

\* mutant: the update with "AND status != 'running'"
cancel_job_not_running(js, id, t) ==
  [i \in RowIds(js) |->
     IF i = id /\ js[i].status # "running"
     THEN [js[i] EXCEPT !.status = "canceled", !.finished_at = t]
     ELSE js[i]]

\* mutant: the update without finished_at
cancel_job_no_finished_at(js, id, t) ==
  [i \in RowIds(js) |->
     IF i = id /\ js[i].status = "queued"
     THEN [js[i] EXCEPT !.status = "canceled"]
     ELSE js[i]]

\* UPDATE jobs SET status='canceled', finished_at=now WHERE id=? AND status='queued'
cancel_job(js, id, t) ==
  [i \in RowIds(js) |->
     IF i = id /\ js[i].status = "queued"
     THEN [js[i] EXCEPT !.status = "canceled", !.finished_at = t]
     ELSE js[i]]

QueuedIds(js) == {i \in RowIds(js) : js[i].status = "queued"}

\* mutant: ORDER BY id DESC
SelectLastQueued(js) ==
  IF QueuedIds(js) = {} THEN NoJob
  ELSE CHOOSE i \in QueuedIds(js) : \A k \in QueuedIds(js) : i >= k

\* mutant: WHERE status IN ('queued', 'running'), a running row is taken over
SelectNextUnfinished(js) ==
  LET S == {i \in RowIds(js) : js[i].status \in {"queued", "running"}} IN
  IF S = {} THEN NoJob ELSE CHOOSE i \in S : \A k \in S : i <= k

\* mutant: WHERE status IN ('queued', 'canceled')
SelectNextNotStarted(js) ==
  LET S == {i \in RowIds(js) : js[i].status \in {"queued", "canceled"}} IN
  IF S = {} THEN NoJob ELSE CHOOSE i \in S : \A k \in S : i <= k

\* SELECT ... WHERE status='queued' ORDER BY id ASC LIMIT 1 ; fetchone()
SelectNextQueued(js) ==
  IF QueuedIds(js) = {} THEN NoJob
  ELSE CHOOSE i \in QueuedIds(js) : \A k \in QueuedIds(js) : i <= k

\* mutant: the UPDATE names created_at instead of started_at
UpdateRunning_created_at(js, id, t) ==
  [i \in RowIds(js) |->
     IF i = id THEN [js[i] EXCEPT !.status = "running", !.created_at = t]
     ELSE js[i]]

\* UPDATE jobs SET status='running', started_at=now WHERE id=?
UpdateRunning(js, id, t) ==
  [i \in RowIds(js) |->
     IF i = id THEN [js[i] EXCEPT !.status = "running", !.started_at = t]
     ELSE js[i]]

\* mutant: the update is lost
set_log_path_lost(js, id, path) == js

\* UPDATE jobs SET log_path=? WHERE id=?
set_log_path(js, id, path) ==
  [i \in RowIds(js) |-> IF i = id THEN [js[i] EXCEPT !.log_path = path] ELSE js[i]]

\* mutant: the UPDATE names started_at instead of finished_at
mark_done_started_at(js, id, t) ==
  [i \in RowIds(js) |->
     IF i = id
     THEN [js[i] EXCEPT !.status = "done", !.started_at = t, !.error = NULLT]
     ELSE js[i]]

\* mutant: the update is lost
mark_done_lost(js, id, t) == js

\* UPDATE jobs SET status='done', finished_at=now, error=NULL WHERE id=?
mark_done(js, id, t) ==
  [i \in RowIds(js) |->
     IF i = id
     THEN [js[i] EXCEPT !.status = "done", !.finished_at = t, !.error = NULLT]
     ELSE js[i]]

\* mutant: the update is lost
mark_failed_lost(js, id, error_text, t) == js

\* mutant: the UPDATE was copied from mark_done and still says status='done'
mark_failed_status_done(js, id, error_text, t) ==
  [i \in RowIds(js) |->
     IF i = id
     THEN [js[i] EXCEPT !.status = "done", !.finished_at = t, !.error = error_text]
     ELSE js[i]]

\* mutant: the error column is left out of the UPDATE
mark_failed_drops_error(js, id, error_text, t) ==
  [i \in RowIds(js) |->
     IF i = id THEN [js[i] EXCEPT !.status = "failed", !.finished_at = t]
     ELSE js[i]]

\* UPDATE jobs SET status='failed', finished_at=now, error=? WHERE id=?
mark_failed(js, id, error_text, t) ==
  [i \in RowIds(js) |->
     IF i = id
     THEN [js[i] EXCEPT !.status = "failed", !.finished_at = t, !.error = error_text]
     ELSE js[i]]

RunningIds(js) == {i \in RowIds(js) : js[i].status = "running"}

\* SELECT ... WHERE status='running' ORDER BY started_at DESC LIMIT 1: the rows
\* fetchone() may return (rows with equal started_at are in no defined order)
get_running(js) ==
  IF RunningIds(js) = {} THEN {NoJob}
  ELSE {i \in RunningIds(js) :
          \A k \in RunningIds(js) : js[k].started_at <= js[i].started_at}

\* the first n elements of a sequence (LIMIT n)
Limit(s, n) == IF Len(s) <= n THEN s ELSE SubSeq(s, 1, n)

RECURSIVE DescIds(_)
\* mutant: ORDER BY id DESC
DescIds(S) ==
  IF S = {} THEN <<>>
  ELSE LET m == CHOOSE i \in S : \A k \in S : i >= k
       IN <<m>> \o DescIds(S \ {m})

RECURSIVE AscIds(_)
\* the ids of a set in ascending order
AscIds(S) ==
  IF S = {} THEN <<>>
  ELSE LET m == CHOOSE i \in S : \A k \in S : i <= k
       IN <<m>> \o AscIds(S \ {m})

\* SELECT ... WHERE status='queued' ORDER BY id ASC LIMIT ?
get_queued(js, limit) == Limit(AscIds(QueuedIds(js)), limit)

FinishedIds(js) ==
  {i \in RowIds(js) : js[i].status \in {"done", "failed", "canceled"}}

RECURSIVE ByFinishedDesc(_, _)
\* ORDER BY finished_at DESC: the orders the rows of S may come in (rows with
\* equal finished_at are in no defined order)
ByFinishedDesc(js, S) ==
  IF S = {} THEN {<<>>}
  ELSE LET tops == {i \in S : \A k \in S : js[k].finished_at <= js[i].finished_at}
       IN UNION {{<<m>> \o s : s \in ByFinishedDesc(js, S \ {m})} : m \in tops}

\* SELECT ... WHERE status IN ('done','failed','canceled')
\* ORDER BY finished_at DESC LIMIT ?: the lists fetchall() may return
get_last_finished(js, n) ==
  {Limit(s, n) : s \in ByFinishedDesc(js, FinishedIds(js))}

(* ------------------------------- worker -------------------------------- *)
\* safe_exp: every character that is not alphanumeric or one of "-_." becomes "_"
safe_exp(exp_id) == IF exp_id = "exp/1" THEN "exp_1" ELSE exp_id

\* os.path.join(logs_dir, f"job_{job_id:06d}_{safe_exp}.log")
LogPath(id, exp_id) == <<"logs", "job", id, safe_exp(exp_id)>>

\* traceback.format_exc(): the stack trace followed by the exception's message
format_exc(msg) == <<"Traceback", msg>>

\* tail_text's default for max_bytes
max_bytes == 80000

Max(a, b) == IF a >= b THEN a ELSE b

\* tail_text: seek to the end, size = f.tell(), start = max(0, size - max_bytes),
\* seek to start and read to the end; a missing file reads as ""
tail_text(f, n) ==
  LET size == Len(f)
      start == Max(0, size - n)
  IN SubSeq(f, start + 1, size)

\* QueueMonitorDialog._worker_stdout_path
worker_stdout_path == <<"worker_stdout.log">>

Init ==
  /\ jobs = <<>>
  /\ now = 1
  /\ lock = NoOne
  /\ pc = [w \in Workers |-> "off"]
  /\ job = [w \in Workers |-> NoJob]
  /\ row = [w \in Workers |-> NoJob]
  /\ tee = [w \in Workers |-> FALSE]
  /\ err = [w \in Workers |-> NULLT]
  /\ returned = [i \in Ids |-> 0]
  /\ mon = [last_log_path |-> NULLT, tbl_queued |-> <<>>]
  /\ logfile = <<>>
  /\ reads = <<>>
  /\ raised = {}

\* the clock advances
Tick ==
  /\ now < MaxTime
  /\ now' = now + 1
  /\ UNCHANGED <<jobs, lock, pc, job, row, tee, err, returned, mon, tvars, raised>>

\* a single-statement write (autocommit) needs the write lock to be free
CanWrite == lock = NoOne

(* ------------------------------ producer ------------------------------- *)
\* a producer calls enqueue_job(exp_id, root_folder, mode, force)
Enqueue(inp) ==
  /\ CanWrite
  /\ Len(jobs) < MaxJobs
  /\ jobs' = enqueue_job(jobs, inp, now)
  /\ UNCHANGED <<now, lock, wvars, returned, mon, tvars, raised>>

\* a producer calls cancel_job(id); the id need not exist
Cancel(id) ==
  /\ CanWrite
  /\ jobs' = cancel_job(jobs, id, now)
  /\ UNCHANGED <<now, lock, wvars, returned, mon, tvars, raised>>

\* a producer calls cancel_job(id) while a claim transaction holds the write
\* lock past the busy timeout: conn.execute raises, nothing is written
CancelFail(id) ==
  /\ ~CanWrite
  /\ raised' = raised \cup {StoreError}
  /\ UNCHANGED <<jobs, now, lock, wvars, returned, mon, tvars>>

(* ------------------------------- worker -------------------------------- *)
Alive(w) == pc[w] \notin {"off", "killed", "crashed"}

\* the process of worker w ends as "killed" or "crashed": its local variables
\* are gone, and SQLite drops its lock and its uncommitted transaction
Exit(w, how) ==
  /\ pc' = [pc EXCEPT ![w] = how]
  /\ job' = [job EXCEPT ![w] = NoJob]
  /\ row' = [row EXCEPT ![w] = NoJob]
  /\ tee' = [tee EXCEPT ![w] = FALSE]
  /\ err' = [err EXCEPT ![w] = NULLT]
  /\ lock' = IF lock = w THEN NoOne ELSE lock

\* main(): q = QueueDB(db_path), then the loop is entered
Start(w) ==
  /\ pc[w] = "off"
  /\ pc' = [pc EXCEPT ![w] = "claim"]
  /\ UNCHANGED <<jobs, now, lock, job, row, tee, err, returned, mon, tvars, raised>>

\* mutant: a plain BEGIN (deferred) takes no lock before the SELECT
BeginDeferred == FALSE

\* does BEGIN IMMEDIATE take the write lock
BeginTakesLock == TRUE

\* claim_next_job: cur.execute("BEGIN IMMEDIATE;") waits until it holds the lock
ClaimBegin(w) ==
  /\ pc[w] = "claim"
  /\ IF BeginTakesLock THEN lock = NoOne /\ lock' = w ELSE UNCHANGED lock
  /\ pc' = [pc EXCEPT ![w] = "select"]
  /\ UNCHANGED <<jobs, now, job, row, tee, err, returned, mon, tvars, raised>>

\* claim_next_job: the SELECT and fetchone(); no row: COMMIT and return None,
\* and main() does time.sleep(poll); continue
ClaimSelect(w) ==
  /\ pc[w] = "select"
  /\ LET r == SelectNextQueued(jobs) IN
       IF r = NoJob
       THEN /\ pc' = [pc EXCEPT ![w] = "claim"]
            /\ lock' = IF lock = w THEN NoOne ELSE lock
            /\ UNCHANGED row
       ELSE /\ pc' = [pc EXCEPT ![w] = "update"]
            /\ row' = [row EXCEPT ![w] = r]
            /\ UNCHANGED lock
  /\ UNCHANGED <<jobs, now, job, tee, err, returned, mon, tvars, raised>>

\* claim_next_job: the UPDATE, COMMIT and return Job(row)
ClaimUpdate(w) ==
  /\ pc[w] = "update"
  /\ lock \in {w, NoOne}
  /\ jobs' = UpdateRunning(jobs, row[w], now)
  /\ lock' = NoOne
  /\ job' = [job EXCEPT ![w] = row[w]]
  /\ row' = [row EXCEPT ![w] = NoJob]
  /\ returned' = [returned EXCEPT ![row[w]] = @ + 1]
  /\ pc' = [pc EXCEPT ![w] = "setlog"]
  /\ UNCHANGED <<now, tee, err, mon, tvars, raised>>

\* claim_next_job raises (BEGIN times out, or a statement fails: ROLLBACK and
\* raise); main() has no handler, so the worker process ends
ClaimFail(w) ==
  /\ pc[w] \in {"claim", "select", "update"}
  /\ Exit(w, "crashed")
  /\ UNCHANGED <<jobs, now, returned, mon, tvars, raised>>

\* os.makedirs(logs_dir), the log path, q.set_log_path(job_id, log_path)
SetLogPath(w) ==
  /\ pc[w] = "setlog"
  /\ CanWrite
  /\ jobs' = set_log_path(jobs, job[w], LogPath(job[w], jobs[job[w]].exp_id))
  /\ pc' = [pc EXCEPT ![w] = "open"]
  /\ UNCHANGED <<now, lock, job, row, tee, err, returned, mon, tvars, raised>>

\* with open(log_path, "a") as lf: sys.stdout, sys.stderr = Tee(..), Tee(..)
OpenLog(w) ==
  /\ pc[w] = "open"
  /\ tee' = [tee EXCEPT ![w] = TRUE]
  /\ pc' = [pc EXCEPT ![w] = "body"]
  /\ UNCHANGED <<jobs, now, lock, job, row, err, returned, mon, tvars, raised>>

\* os.makedirs, set_log_path or open raises before the try block is entered:
\* nothing catches it and the worker process ends
SetupFail(w) ==
  /\ pc[w] \in {"setlog", "open"}
  /\ Exit(w, "crashed")
  /\ UNCHANGED <<jobs, now, returned, mon, tvars, raised>>

\* run_extraction(...) returns normally
BodyReturn(w) ==
  /\ pc[w] = "body"
  /\ pc' = [pc EXCEPT ![w] = "mark_done"]
  /\ UNCHANGED <<jobs, now, lock, job, row, tee, err, returned, mon, tvars, raised>>

\* mutant: the handler does not catch the exception of the job body
BodyRaiseUncaught(w, msg) ==
  /\ pc[w] = "body"
  /\ Exit(w, "crashed")
  /\ UNCHANGED <<jobs, now, returned, mon, tvars, raised>>

\* run_extraction(...) raises: except Exception: err = traceback.format_exc()
BodyRaise(w, msg) ==
  /\ pc[w] = "body"
  /\ err' = [err EXCEPT ![w] = format_exc(msg)]
  /\ pc' = [pc EXCEPT ![w] = "except"]
  /\ UNCHANGED <<jobs, now, lock, job, row, tee, returned, mon, tvars, raised>>

\* q.mark_done(job_id)
MarkDone(w) ==
  /\ pc[w] = "mark_done"
  /\ CanWrite
  /\ jobs' = mark_done(jobs, job[w], now)
  /\ pc' = [pc EXCEPT ![w] = "restore"]
  /\ UNCHANGED <<now, lock, job, row, tee, err, returned, mon, tvars, raised>>

\* q.mark_done(job_id) raises inside the try block: the handler catches it
MarkDoneFail(w) ==
  /\ pc[w] = "mark_done"
  /\ err' = [err EXCEPT ![w] = format_exc(StoreError)]
  /\ pc' = [pc EXCEPT ![w] = "except"]
  /\ UNCHANGED <<jobs, now, lock, job, row, tee, returned, mon, tvars, raised>>

\* q.mark_failed(job_id, err)
MarkFailed(w) ==
  /\ pc[w] = "except"
  /\ CanWrite
  /\ jobs' = mark_failed(jobs, job[w], err[w], now)
  /\ pc' = [pc EXCEPT ![w] = "restore"]
  /\ UNCHANGED <<now, lock, job, row, tee, err, returned, mon, tvars, raised>>

\* q.mark_failed raises inside the handler: finally restores the streams and
\* the exception leaves main()
MarkFailedFail(w) ==
  /\ pc[w] = "except"
  /\ Exit(w, "crashed")
  /\ UNCHANGED <<jobs, now, returned, mon, tvars, raised>>

\* finally: sys.stdout, sys.stderr = old_out, old_err; the with block closes the
\* log file and the loop starts over
Restore(w) ==
  /\ pc[w] = "restore"
  /\ tee' = [tee EXCEPT ![w] = FALSE]
  /\ err' = [err EXCEPT ![w] = NULLT]
  /\ job' = [job EXCEPT ![w] = NoJob]
  /\ pc' = [pc EXCEPT ![w] = "claim"]
  /\ UNCHANGED <<jobs, now, lock, row, returned, mon, tvars, raised>>

\* the worker process is killed from outside
Kill(w) ==
  /\ Alive(w)
  /\ Exit(w, "killed")
  /\ UNCHANGED <<jobs, now, returned, mon, tvars, raised>>

(* ------------------------------- monitor ------------------------------- *)
\* refresh(): the log shown is the running job's, else the worker's stdout log
ShownLog(js, r) ==
  IF r # NoJob /\ js[r].log_path # NULLT THEN js[r].log_path ELSE worker_stdout_path

\* QueueMonitorDialog.refresh
Refresh ==
  /\ \E r \in get_running(jobs) :
       mon' = [last_log_path |-> ShownLog(jobs, r),
               tbl_queued |-> get_queued(jobs, 500)]
  /\ mon' # mon
  /\ UNCHANGED <<jobs, now, lock, wvars, returned, tvars, raised>>

RECURSIVE CancelAll(_, _, _)
\* for jid in job_ids: self.qdb.cancel_job(jid)
CancelAll(js, ids, t) ==
  IF ids = <<>> THEN js ELSE CancelAll(cancel_job(js, Head(ids), t), Tail(ids), t)

\* mutant: the loop runs over every row of the queued table, selected or not
CancelSelectedAll(sel) ==
  /\ sel # {}
  /\ CanWrite
  /\ LET job_ids == AscIds({mon.tbl_queued[k] : k \in DOMAIN mon.tbl_queued})
         js == CancelAll(jobs, job_ids, now)
     IN /\ jobs' = js
        /\ \E r \in get_running(js) :
             mon' = [last_log_path |-> ShownLog(js, r),
                     tbl_queued |-> get_queued(js, 500)]
  /\ UNCHANGED <<now, lock, wvars, returned, tvars, raised>>

\* QueueMonitorDialog.cancel_selected: the selected rows of the queued table,
\* confirmed by the user, are canceled and the dialog refreshes
CancelSelected(sel) ==
  /\ sel # {}
  /\ CanWrite
  /\ LET job_ids == AscIds({mon.tbl_queued[k] : k \in sel})
         js == CancelAll(jobs, job_ids, now)
     IN /\ jobs' = js
        /\ \E r \in get_running(js) :
             mon' = [last_log_path |-> ShownLog(js, r),
                     tbl_queued |-> get_queued(js, 500)]
  /\ UNCHANGED <<now, lock, wvars, returned, tvars, raised>>

\* what the worker prints through the Tee, byte by byte
line1 == <<"l", "i", "n", "e", "1", "\n">>
line2 == <<"l", "i", "n", "e", "2", "\n">>
Lines == {line1, line2}

\* Tee.write(data) on the log file opened with mode "a": write and flush
TeeWrite(data) ==
  /\ Len(logfile) < MaxLogLines * Len(line1)
  /\ logfile' = logfile \o data
  /\ UNCHANGED <<jobs, now, lock, wvars, returned, mon, reads, raised>>

\* refresh, the log tail: text = tail_text(log_path); the log view is set to
\* text, or to "(no log output yet)" when text is empty
TailRead ==
  /\ Len(reads) < MaxReads
  /\ LET text == tail_text(logfile, max_bytes) IN
       reads' = Append(reads,
                  [text |-> text, size |-> Len(logfile),
                   txt_log |-> IF text # <<>> THEN text
                               ELSE <<"(no log output yet)">>])
  /\ UNCHANGED <<jobs, now, lock, wvars, returned, mon, logfile, raised>>

WorkerStep(w) ==
  \/ Start(w)
  \/ ClaimBegin(w)
  \/ ClaimSelect(w)
  \/ ClaimUpdate(w)
  \/ ClaimFail(w)
  \/ SetLogPath(w)
  \/ OpenLog(w)
  \/ SetupFail(w)
  \/ BodyReturn(w)
  \/ \E msg \in BodyErrors : BodyRaise(w, msg)
  \/ MarkDone(w)
  \/ MarkDoneFail(w)
  \/ MarkFailed(w)
  \/ MarkFailedFail(w)
  \/ Restore(w)
  \/ Kill(w)

\* the steps of a worker that is not killed and meets no store or file error
WorkerRun(w) ==
  \/ Start(w)
  \/ ClaimBegin(w)
  \/ ClaimSelect(w)
  \/ ClaimUpdate(w)
  \/ SetLogPath(w)
  \/ OpenLog(w)
  \/ BodyReturn(w)
  \/ \E msg \in BodyErrors : BodyRaise(w, msg)
  \/ MarkDone(w)
  \/ MarkFailed(w)
  \/ Restore(w)

\* the producers, which pass arguments from I (the cancel_job calls of the
\* monitor's cancel_selected are among the Cancel steps)
Producer(I) ==
  \/ \E inp \in I : Enqueue(inp)
  \/ \E id \in Ids : Cancel(id)

\* the clock and the producers
Environment(I) == Tick \/ Producer(I)

Monitor ==
  \/ Refresh
  \/ \E sel \in SUBSET DOMAIN mon.tbl_queued : CancelSelected(sel)

\* any number of worker processes (a second one running beside the first, or
\* started after it died)
Next == Environment({DefaultInput}) \/ \E w \in Workers : WorkerStep(w)

Spec == Init /\ [][Next]_vars

\* any number of worker processes, every call within one second of the clock
\* (no statement reads a timestamp to decide what it does)
NextRace == Producer({DefaultInput}) \/ \E w \in Workers : WorkerStep(w)

SpecRace == Init /\ [][NextRace]_vars

\* exactly one worker process
NextOne == Environment({DefaultInput}) \/ WorkerStep(W1)

SpecOne == Init /\ [][NextOne]_vars

\* one worker process and the monitor dialog
NextMon == Environment({DefaultInput}) \/ Monitor \/ WorkerStep(W1)

SpecMon == Init /\ [][NextMon]_vars

\* one worker process and the monitor dialog, every call within one second of
\* the clock
NextWriters == Producer({DefaultInput}) \/ Monitor \/ WorkerStep(W1)

SpecWriters == Init /\ [][NextWriters]_vars

\* any number of worker processes and producers whose calls may find the
\* store locked, every call within one second of the clock
NextLock == NextRace \/ \E id \in Ids : CancelFail(id)

SpecLock == Init /\ [][NextLock]_vars

\* one worker process that runs undisturbed
NextRun == Environment({DefaultInput}) \/ WorkerRun(W1)

SpecRun == Init /\ [][NextRun]_vars

\* the store and file errors a worker may meet
WorkerError(w) ==
  \/ ClaimFail(w)
  \/ SetupFail(w)
  \/ MarkDoneFail(w)
  \/ MarkFailedFail(w)

\* one worker process that nobody kills: the loop keeps taking its next step
\* (every call returns, every job body returns or raises), and a call may
\* raise a store error
NextFair == Environment({DefaultInput}) \/ WorkerRun(W1) \/ WorkerError(W1)

SpecFair == Init /\ [][NextFair]_vars /\ WF_vars(WorkerRun(W1))

\* one worker process, producers passing different arguments
NextArgs == Environment(Inputs) \/ WorkerStep(W1)

SpecArgs == Init /\ [][NextArgs]_vars

\* a worker's prints into a job log and the monitor's tail reads of it
NextTail == (\E data \in Lines : TeeWrite(data)) \/ TailRead

SpecTail == Init /\ [][NextTail]_vars

(* ------------------------------ properties ----------------------------- *)
Terminal == {"done", "failed", "canceled"}
Started(w) == pc[w] # "off"

C2_ClaimedOnce ==
  /\ \A i \in Ids : returned[i] <= 1
  /\ \A i \in RowIds(jobs) :
       returned[i] = (IF jobs[i].status \in {"running", "done", "failed"} THEN 1 ELSE 0)
  /\ \A w1, w2 \in Workers : w1 # w2 /\ job[w1] # NoJob => job[w1] # job[w2]

\* C2 witness: two workers called claim_next_job and received different rows
C2_TwoClaims ==
  /\ job["w1"] # NoJob /\ job["w2"] # NoJob
  /\ returned[job["w1"]] = 1 /\ returned[job["w2"]] = 1

\* C3: rows are claimed in ascending id order: once row b has been claimed no
\* row with a smaller id is 'queued', a row fetched for a claim has no 'queued'
\* row below it, and of two claimed rows the one with the smaller id has the
\* earlier or equal started_at
C3_FIFO ==
  /\ \A a, b \in RowIds(jobs) :
       a < b /\ jobs[b].started_at # NULL =>
         /\ jobs[a].status # "queued"
         /\ jobs[a].started_at # NULL => jobs[a].started_at <= jobs[b].started_at
  /\ \A w \in Workers : \A a \in RowIds(jobs) :
       lock = w /\ pc[w] = "update" /\ a < row[w] => jobs[a].status # "queued"

\* C3 witness: two rows were claimed at different times while a third waits
C3_TwoClaimedInOrder ==
  /\ Len(jobs) = 3
  /\ jobs[1].started_at # NULL /\ jobs[2].started_at # NULL
  /\ jobs[1].started_at < jobs[2].started_at
  /\ jobs[3].status = "queued"

\* C4: a cancel_job call on a 'running' row changes nothing; on a 'queued' row
\* it sets status 'canceled' and a non-null finished_at
C4_CancelConditional ==
  [][\A id \in Ids : Cancel(id) /\ id \in RowIds(jobs) =>
       /\ jobs[id].status = "running" => jobs' = jobs
       /\ jobs[id].status = "queued" =>
            /\ jobs'[id].status = "canceled"
            /\ jobs'[id].finished_at # NULL]_vars

\* C4 witness: a queued row was canceled while another row is 'running'
C4_CanceledBesideRunning ==
  \E i, k \in RowIds(jobs) :
    /\ jobs[i].status = "canceled" /\ jobs[i].finished_at # NULL
    /\ jobs[k].status = "running"

\* C5: once a row is 'done', 'failed' or 'canceled', no step changes its
\* status, started_at or finished_at
C5_TerminalImmutable ==
  [][\A i \in RowIds(jobs) : jobs[i].status \in Terminal =>
       /\ jobs'[i].status = jobs[i].status
       /\ jobs'[i].started_at = jobs[i].started_at
       /\ jobs'[i].finished_at = jobs[i].finished_at]_vars

\* C5 witness: rows finished in each of the three ways and the clock moved on
C5_AllTerminal ==
  /\ {jobs[i].status : i \in RowIds(jobs)} = Terminal
  /\ \A i \in RowIds(jobs) : jobs[i].finished_at < now

\* the status changes the design allows
Edges ==
  { <<"queued", "running">>, <<"running", "done">>, <<"running", "failed">>,
    <<"queued", "canceled">> }

\* C6: every change of a row's status is one of the edges queued->running,
\* running->done, running->failed, queued->canceled, and a new row is 'queued'
C6_OnlyLegalEdges ==
  [][/\ \A i \in RowIds(jobs) :
          jobs'[i].status # jobs[i].status =>
            <<jobs[i].status, jobs'[i].status>> \in Edges
     /\ \A i \in RowIds(jobs') \ RowIds(jobs) : jobs'[i].status = "queued"]_vars

\* C6 witness: one row failed, one was canceled and one is running
C6_EdgesTaken ==
  {jobs[i].status : i \in RowIds(jobs)} = {"failed", "canceled", "running"}

\* C7: with one worker process at most one row is 'running', and while the
\* worker is inside claim_next_job no row is 'running'
C7_SingleWorkerOneRunning ==
  /\ Cardinality(RunningIds(jobs)) <= 1
  /\ pc[W1] \in {"claim", "select", "update"} => RunningIds(jobs) = {}

\* C7 witness: the worker finished a job and is claiming the next queued one
C7_ClaimingAfterDone ==
  /\ pc[W1] = "update"
  /\ \E i \in RowIds(jobs) : jobs[i].status = "done"
  /\ jobs[row[W1]].status = "queued"

\* C8: started_at is non-null iff status is running, done or failed, and
\* finished_at is non-null iff status is done, failed or canceled
C8_TimestampsMatchStatus ==
  \A i \in RowIds(jobs) :
    /\ jobs[i].started_at # NULL <=> jobs[i].status \in {"running", "done", "failed"}
    /\ jobs[i].finished_at # NULL <=> jobs[i].status \in {"done", "failed", "canceled"}

\* C8 witness: a canceled, a running and a done row side by side
C8_MixedRows ==
  {jobs[i].status : i \in RowIds(jobs)} = {"canceled", "running", "done"}

\* C9 as stated: the row get_running returns always has a log_path
C9_RunningHasLogPath ==
  \A r \in get_running(jobs) : r # NoJob => jobs[r].log_path # NULLT

\* C9 amended: log_path is set before the job body starts: from the moment
\* the worker opens the log file its row carries the job's log path, and so
\* does every row that is 'done' or 'failed'
C9_LogPathBeforeBody ==
  /\ \A w \in Workers :
       pc[w] \in {"open", "body", "mark_done", "except", "restore"} =>
         /\ job[w] \in RowIds(jobs)
         /\ jobs[job[w]].log_path = LogPath(job[w], jobs[job[w]].exp_id)
         /\ jobs[job[w]].log_path # NULLT
  /\ \A i \in RowIds(jobs) :
       jobs[i].status \in {"done", "failed"} => jobs[i].log_path # NULLT

\* C9 witness: the job body runs and the monitor would tail the job's log
C9_BodyRunsWithLogPath ==
  /\ pc[W1] = "body"
  /\ jobs[job[W1]].status = "running"
  /\ \A r \in get_running(jobs) : ShownLog(jobs, r) = jobs[job[W1]].log_path

\* C10: an exception of the job body does not end the worker: it is caught,
\* mark_failed changes the failing job's row only, and the worker goes back
\* to claim_next_job
C10_FailureIsolated ==
  [][\A w \in Workers :
       /\ pc[w] = "body" => pc'[w] # "crashed"
       /\ pc[w] = "except" /\ pc'[w] \notin {"except", "killed", "crashed"} =>
            /\ pc'[w] = "restore"
            /\ jobs'[job[w]].status = "failed"
            /\ \A i \in RowIds(jobs) \ {job[w]} : jobs'[i] = jobs[i]
            /\ Len(jobs') = Len(jobs)
       /\ pc[w] = "restore" => pc'[w] \in {"restore", "claim", "killed"}]_vars

\* C10 witness: job 1 failed with the body's error, the same worker then ran
\* job 2 to 'done' and is back at claim_next_job
C10_NextJobRunsAfterFailure ==
  /\ Len(jobs) >= 2
  /\ jobs[1].status = "failed" /\ jobs[1].error = format_exc("disk full")
  /\ jobs[2].status = "done"
  /\ pc[W1] = "claim"

\* C11: a store error of claim_next_job (the store stays locked past the
\* busy timeout) does not end the worker loop: the worker treats it as
\* "no job available" and calls claim_next_job again
C11_ClaimErrorKeepsLoop ==
  [][\A w \in Workers :
       pc[w] \in {"claim", "select", "update"} => pc'[w] # "crashed"]_vars

\* C12: of two callers inside claim_next_job at once, a caller is given a row
\* only while the row is still 'queued', no other caller holds or is being
\* given that row, and a caller is told "no job" only when no row is queued;
\* with exactly one queued job, exactly one caller receives it
C12_ExactlyOneReceives ==
  [][\A w \in Workers :
       /\ pc[w] = "select" /\ pc'[w] = "claim" => QueuedIds(jobs) = {}
       /\ pc[w] = "update" /\ pc'[w] = "setlog" =>
            /\ job'[w] = row[w]
            /\ jobs[row[w]].status = "queued"
            /\ jobs'[row[w]].status = "running"
            /\ \A v \in Workers \ {w} :
                 job[v] # row[w] /\ row[v] # row[w]]_vars

\* C12 witness: the store holds one job, w1 received it, and w2's call, which
\* began before w1's call returned or after it, is at its SELECT with no
\* queued row left
C12_OneReceivedOtherNone ==
  /\ Len(jobs) = 1
  /\ job["w1"] = 1 /\ returned[1] = 1
  /\ pc["w2"] = "select" /\ lock = "w2"
  /\ SelectNextQueued(jobs) = NoJob

\* C13: claim_next_job's SELECT yields the smallest id whose status is
\* 'queued' whatever lies below it (canceled, running or finished rows are
\* passed over) and no row only when none is queued; with job 1 running and
\* job 2 canceled a claim is given job 3; cancel_job leaves a running job 1
\* as it is and makes a queued job 2 'canceled'
C13_SkipsNotQueued ==
  /\ LET r == SelectNextQueued(jobs) IN
       /\ r = NoJob <=> QueuedIds(jobs) = {}
       /\ r # NoJob =>
            /\ jobs[r].status = "queued"
            /\ \A a \in 1..(r - 1) :
                 jobs[a].status \in {"running", "canceled", "done", "failed"}
  /\ \A w \in Workers :
       /\ lock = w /\ pc[w] = "update" => row[w] = SelectNextQueued(jobs)
       /\ pc[w] \in {"setlog", "open", "body"} =>
            jobs[job[w]].status = "running"
  /\ Len(jobs) = 3 /\ jobs[1].status = "running" =>
       /\ cancel_job(jobs, 1, now) = jobs
       /\ jobs[2].status = "queued" =>
            /\ cancel_job(jobs, 2, now)[2].status = "canceled"
            /\ cancel_job(jobs, 2, now)[1].status = "running"
       /\ jobs[2].status = "canceled" /\ jobs[3].status = "queued" =>
            /\ SelectNextQueued(jobs) = 3
            /\ UpdateRunning(jobs, 3, now)[3].status = "running"

\* C13 witness: jobs 1, 2, 3 were enqueued, job 1 was claimed and is still
\* running, job 2 is canceled, and a second claim was given job 3
C13_ThirdJobClaimed ==
  /\ Len(jobs) = 3
  /\ jobs[1].status = "running" /\ jobs[2].status = "canceled"
  /\ jobs[3].status = "running"
  /\ \E w, v \in Workers : job[w] = 1 /\ job[v] = 3 /\ pc[v] = "setlog"

\* does the stored text contain the message of the raised error
Contains(text, msg) == \E k \in 1..Len(text) : text[k] = msg

\* C14: when the body of a claimed job raises, the handler's text contains
\* the raised error's message, and mark_failed leaves the row 'failed' with
\* that text as error, finished_at set to the current time, and the
\* started_at written by the claim, which no step in between has changed
C14_FailedRowContent ==
  [][\A w \in Workers :
       /\ pc[w] = "update" /\ pc'[w] = "setlog" =>
            jobs'[job'[w]].started_at = now
       /\ job[w] # NoJob /\ job'[w] = job[w] =>
            jobs'[job[w]].started_at = jobs[job[w]].started_at
       /\ pc[w] = "body" /\ pc'[w] = "except" =>
            \E msg \in BodyErrors : Contains(err'[w], msg)
       /\ pc[w] = "except" /\ pc'[w] = "restore" =>
            /\ jobs'[job[w]].status = "failed"
            /\ jobs'[job[w]].error = err[w]
            /\ \E msg \in BodyErrors \cup {StoreError} :
                 Contains(jobs'[job[w]].error, msg)
            /\ jobs'[job[w]].finished_at = now
            /\ jobs'[job[w]].finished_at # NULL
            /\ jobs[job[w]].started_at # NULL]_vars

\* C14 witness: job 1 was claimed at time 1, its body raised "disk full", and
\* mark_failed ran at time 2
C14_FailedAfterClaim ==
  /\ Len(jobs) >= 1
  /\ jobs[1].status = "failed"
  /\ Contains(jobs[1].error, "disk full")
  /\ jobs[1].started_at = 1 /\ jobs[1].finished_at = 2

\* C15: the log tail reads by byte offset: of two tail reads with an append
\* in between, the second returns only the bytes appended since the first
\* (after "line1\n" is read and "line2\n" appended, only "line2\n")
C15_TailReturnsOnlyNew ==
  /\ reads # <<>> => reads[1].text = SubSeq(logfile, 1, reads[1].size)
  /\ \A k \in 2..Len(reads) :
       reads[k].size > reads[k - 1].size =>
         reads[k].text = SubSeq(logfile, reads[k - 1].size + 1, reads[k].size)

\* C16: on every reachable table, enqueue_job with any arguments adds exactly
\* one row, 'queued' with the arguments given and null started_at,
\* finished_at, log_path and error, leaves every other row as it was, and
\* returns the new row's id, which is above every id assigned before; rows
\* with the same arguments already present do not prevent the insert
C16_EnqueueAddsOneRow ==
  \A inp \in Inputs :
    LET js == enqueue_job(jobs, inp, now)
        id == lastrowid(js)
    IN /\ Len(js) = Len(jobs) + 1
       /\ \A i \in RowIds(jobs) : js[i] = jobs[i] /\ i < id
       /\ id \in RowIds(js) \ RowIds(jobs)
       /\ js[id].status = "queued"
       /\ js[id].exp_id = inp.exp_id /\ js[id].root_folder = inp.root_folder
       /\ js[id].mode = inp.mode /\ js[id].force = inp.force
       /\ js[id].created_at = now
       /\ js[id].started_at = NULL /\ js[id].finished_at = NULL
       /\ js[id].log_path = NULLT /\ js[id].error = NULLT

\* C16 witness: two enqueues with identical arguments gave two queued rows,
\* after an earlier row was already claimed
C16_DuplicateRows ==
  /\ Len(jobs) = 3
  /\ jobs[1].status = "done"
  /\ jobs[2].status = "queued" /\ jobs[3].status = "queued"
  /\ jobs[2].exp_id = jobs[3].exp_id /\ jobs[2].root_folder = jobs[3].root_folder
  /\ jobs[2].mode = jobs[3].mode /\ jobs[2].force = jobs[3].force
  /\ jobs[2].created_at = jobs[3].created_at

\* C17: in every reachable state a row's error is non-null only if its
\* status is 'failed', and a row marked done has a null error
C17_ErrorOnlyOnFailed ==
  /\ \A i \in RowIds(jobs) : jobs[i].error # NULLT => jobs[i].status = "failed"
  /\ \A i \in RowIds(jobs) : jobs[i].status = "done" => jobs[i].error = NULLT
  /\ \A w \in Workers :
       pc[w] = "mark_done" => mark_done(jobs, job[w], now)[job[w]].error = NULLT

\* C17 witness: one row failed with an error text, and the same worker then
\* marked the next row done, with error null
C17_DoneAfterFailed ==
  /\ Len(jobs) >= 2
  /\ jobs[1].status = "failed" /\ jobs[1].error # NULLT
  /\ jobs[2].status = "done" /\ jobs[2].error = NULLT
  /\ pc[W1] = "restore"

\* C18: a row leaves 'running' for 'done' or 'failed' only in the mark_done /
\* mark_failed step of the worker that claimed it; a row becomes 'canceled'
\* only in a step of a producer or the monitor (no worker moves), and only
\* from 'queued'; a step in which no worker moves leaves every running row
\* running
C18_WriterSeparation ==
  [][\A i \in RowIds(jobs) :
       /\ jobs[i].status = "running" /\ jobs'[i].status \in {"done", "failed"} =>
            \E w \in Workers :
              /\ job[w] = i
              /\ pc[w] \in {"mark_done", "except"} /\ pc'[w] = "restore"
       /\ jobs[i].status # "canceled" /\ jobs'[i].status = "canceled" =>
            /\ jobs[i].status = "queued"
            /\ wvars' = wvars
       /\ jobs[i].status = "running" /\ wvars' = wvars =>
            jobs'[i].status = "running"]_vars

\* C18 witness: two queued rows were canceled while the first row was running
\* or finished, the worker marked the first row, and the monitor's table of
\* queued jobs, refreshed by cancel_selected, is empty
C18_BothWritersActed ==
  /\ Len(jobs) = 3
  /\ jobs[1].status \in {"done", "failed"}
  /\ jobs[2].status = "canceled" /\ jobs[3].status = "canceled"
  /\ mon.tbl_queued = <<>>
  /\ mon.last_log_path = worker_stdout_path

\* C19: a running row that no living worker holds (the worker that claimed
\* it was killed or crashed) is left exactly as it is by every step of a
\* producer or of a worker started later, and no worker ever holds it again
C19_OrphanStaysRunning ==
  [][\A i \in RowIds(jobs) :
       (jobs[i].status = "running" /\ \A w \in Workers : job[w] # i) =>
         /\ jobs'[i] = jobs[i]
         /\ \A w \in Workers : job'[w] # i /\ row'[w] # i]_vars

\* C19 witness: the worker that claimed job 1 is dead, job 1 is still
\* running, and the other worker has since run job 2 to the end and asks
\* for the next job
C19_OrphanBesideFinishedJob ==
  /\ Len(jobs) >= 2
  /\ jobs[1].status = "running" /\ returned[1] = 1
  /\ \A w \in Workers : job[w] # 1
  /\ jobs[2].status = "done"
  /\ \E w, v \in Workers :
       pc[w] \in {"killed", "crashed"} /\ pc[v] = "select" /\ lock = v

\* C20: no step removes a row: every id present stays present, and the
\* row's exp_id, root_folder, mode, force and created_at stay as inserted
C20_RowsKept ==
  [][/\ Len(jobs') >= Len(jobs)
     /\ \A i \in RowIds(jobs) :
          /\ i \in RowIds(jobs')
          /\ jobs'[i].exp_id = jobs[i].exp_id
          /\ jobs'[i].root_folder = jobs[i].root_folder
          /\ jobs'[i].mode = jobs[i].mode
          /\ jobs'[i].force = jobs[i].force
          /\ jobs'[i].created_at = jobs[i].created_at]_vars

\* C20 witness: rows inserted at different times have gone through claim,
\* set_log_path, mark_done and cancel and are all still present
C20_AllRowsPresent ==
  /\ Len(jobs) = 3
  /\ jobs[1].status = "done" /\ jobs[1].created_at = 1 /\ jobs[1].finished_at = 2
  /\ jobs[1].log_path # NULLT /\ jobs[1].exp_id = DefaultInput.exp_id
  /\ jobs[2].status = "canceled"
  /\ jobs[3].status = "queued" /\ jobs[3].created_at = 2

\* C21: on every reachable table, cancel_job of a row that is 'done',
\* 'failed' or 'canceled', or of an id no row has, changes no field of any
\* row (an already-canceled row keeps its finished_at), and so does the
\* monitor's loop over ids that are all of this kind
C21_CancelNoOp ==
  /\ \A id \in 0..(MaxJobs + 1) :
       (id \notin RowIds(jobs) \/ jobs[id].status \in Terminal) =>
         cancel_job(jobs, id, now) = jobs
  /\ LET gone == {id \in RowIds(jobs) : jobs[id].status \in Terminal} IN
       CancelAll(jobs, AscIds(gone), now) = jobs

\* C21 witness: job 1 is done, job 2 was canceled at time 1, the clock now
\* reads 2, and ids 3 and above have no row
C21_StaleCancelTargets ==
  /\ Len(jobs) = 2
  /\ jobs[1].status = "done"
  /\ jobs[2].status = "canceled" /\ jobs[2].finished_at = 1
  /\ now = 2

\* C22: a claim_next_job or cancel_job call that does not get the write lock
\* raises to its caller and writes nothing: a call that ends in an error
\* leaves the table as it was, no row is written by anyone but the holder
\* while the lock is held, and claim_next_job's SELECT and UPDATE run only
\* while the caller holds the lock it took at BEGIN
C22_LockFailureSurfaces ==
  [][/\ \A w \in Workers :
          /\ pc[w] \in {"claim", "select", "update"} /\ pc'[w] = "crashed" =>
               jobs' = jobs
          /\ pc[w] = "claim" /\ lock \notin {NoOne, w} =>
               pc'[w] \in {"claim", "crashed", "killed"}
          /\ pc[w] \in {"select", "update"} => lock = w
          /\ pc'[w] \in {"select", "update"} => lock' = w
          /\ lock = w /\ jobs' # jobs =>
               pc[w] = "update" /\ pc'[w] = "setlog" /\ lock' = NoOne
     /\ raised' # raised => jobs' = jobs /\ lock' = lock /\ lock # NoOne
     /\ lock # NoOne /\ wvars' = wvars => jobs' = jobs]_vars

\* C22 witness: w2 is inside its claim transaction, a producer's cancel_job
\* raised "database is locked", w1's claim_next_job raised and ended w1, and
\* the queued row is as it was
C22_LockedOut ==
  /\ Len(jobs) = 1 /\ jobs[1].status = "queued"
  /\ lock = "w2" /\ pc["w2"] = "update"
  /\ pc["w1"] = "crashed"
  /\ raised = {StoreError}

\* C23: a refresh of the monitor writes nothing to the store; a step in which
\* the monitor's view changes alters no row except by turning rows it lists
\* as queued from 'queued' to 'canceled', and cancel_selected alters only
\* rows the user selected
C23_MonitorWritesOnlyCancels ==
  [][/\ Refresh => jobs' = jobs /\ lock' = lock
     /\ mon' # mon =>
          /\ Len(jobs') = Len(jobs)
          /\ \A i \in RowIds(jobs) :
               jobs'[i] # jobs[i] =>
                 /\ \E k \in DOMAIN mon.tbl_queued : mon.tbl_queued[k] = i
                 /\ jobs[i].status = "queued"
                 /\ jobs'[i] = [jobs[i] EXCEPT !.status = "canceled",
                                               !.finished_at = now]
     /\ \A sel \in SUBSET DOMAIN mon.tbl_queued :
          CancelSelected(sel) =>
            \A i \in RowIds(jobs) :
              jobs'[i] # jobs[i] => \E k \in sel : mon.tbl_queued[k] = i]_vars

\* C23 witness: the monitor lists jobs 2 and 3 as queued while job 1 runs,
\* and of the two only job 2, the one selected, has been canceled
C23_OnlySelectedCanceled ==
  /\ Len(jobs) = 3
  /\ jobs[1].status = "running"
  /\ jobs[2].status = "canceled" /\ jobs[3].status = "queued"
  /\ mon.tbl_queued = <<3>>
  /\ mon.last_log_path = jobs[1].log_path /\ jobs[1].log_path # NULLT

\* C24: the recorded outcome is the body's outcome: a claimed row becomes
\* 'done' only after its body returned normally, a body that returned
\* normally is followed by the row being marked done (unless the worker is
\* killed), and a row becomes 'failed' only with an error its body raised
C24_OutcomeMatchesBody ==
  [][\A w \in Workers :
       job[w] # NoJob =>
         /\ jobs[job[w]].status = "running" /\ jobs'[job[w]].status = "done" =>
              pc[w] = "mark_done"
         /\ pc[w] = "mark_done" => pc'[w] \in {"mark_done", "restore", "killed"}
         /\ jobs[job[w]].status = "running" /\ jobs'[job[w]].status = "failed" =>
              \E msg \in BodyErrors : err[w] = format_exc(msg)]_vars

\* the order of the worker's steps for one job as the claim gives it; the
\* process may also end at any point
StepOrder ==
  {<<"off", "claim">>, <<"claim", "select">>, <<"select", "claim">>,
   <<"select", "update">>, <<"update", "setlog">>, <<"setlog", "open">>,
   <<"open", "body">>, <<"body", "mark_done">>, <<"body", "except">>,
   <<"mark_done", "restore">>, <<"except", "restore">>, <<"restore", "claim">>}

\* C25: for every job the steps come in the order claim, set_log_path (once),
\* tee and body, exactly one of mark_done / mark_failed, restore of the
\* streams, next claim: the streams are replaced exactly from the body to the
\* restore, and a mark_done call is never followed by a mark_failed call
C25_StepsInOrder ==
  [][\A w \in Workers :
       /\ pc'[w] # pc[w] =>
            \/ <<pc[w], pc'[w]>> \in StepOrder
            \/ pc'[w] \in {"killed", "crashed"}
       /\ tee'[w] <=> pc'[w] \in {"body", "mark_done", "except", "restore"}
       /\ pc[w] = "setlog" /\ pc'[w] = "open" =>
            jobs[job[w]].log_path = NULLT /\ jobs'[job[w]].log_path # NULLT
       /\ pc'[w] = "restore" /\ pc[w] # "restore" =>
            jobs[job[w]].status = "running" /\
            jobs'[job[w]].status \in {"done", "failed"}]_vars

\* C26: started_at, finished_at and log_path are written once: a non-null
\* value never changes, started_at is assigned only in the step that makes
\* the row 'running', and finished_at only in the step that makes it 'done',
\* 'failed' or 'canceled'
C26_WriteOnce ==
  [][\A i \in RowIds(jobs) :
       /\ jobs[i].started_at # NULL => jobs'[i].started_at = jobs[i].started_at
       /\ jobs[i].finished_at # NULL => jobs'[i].finished_at = jobs[i].finished_at
       /\ jobs[i].log_path # NULLT => jobs'[i].log_path = jobs[i].log_path
       /\ jobs'[i].started_at # jobs[i].started_at =>
            jobs[i].status = "queued" /\ jobs'[i].status = "running"
       /\ jobs'[i].finished_at # jobs[i].finished_at =>
            jobs[i].status \notin Terminal /\ jobs'[i].status \in Terminal]_vars

\* C26 witness: job 1 was claimed at time 1 and finished at time 2 with its
\* log path, and job 2 was claimed at time 2, after the clock moved
C26_StampsKept ==
  /\ Len(jobs) >= 2
  /\ jobs[1].started_at = 1 /\ jobs[1].finished_at = 2
  /\ jobs[1].log_path = LogPath(1, jobs[1].exp_id)
  /\ jobs[2].started_at = 2 /\ jobs[2].log_path # NULLT
  /\ now = 2

Min(a, b) == IF a <= b THEN a ELSE b

\* C27: on every reachable table, get_queued(limit) is the list of the first
\* `limit` queued ids in ascending order (limit 0, 1, 2 and the monitor's 500); every list get_last_finished(n) may
\* return holds min(n, number of finished rows) different finished rows in
\* descending finished_at order, none of them older than a finished row left
\* out; get_running returns a running row if there is one and None otherwise
C27_ReadProjections ==
  /\ \A limit \in {0, 1, 2, 500} :
       LET q == get_queued(jobs, limit) IN
         /\ Len(q) = Min(limit, Cardinality(QueuedIds(jobs)))
         /\ \A k \in 1..Len(q) : q[k] \in QueuedIds(jobs)
         /\ \A k \in 1..(Len(q) - 1) : q[k] < q[k + 1]
         /\ \A i \in QueuedIds(jobs) :
              (\A k \in 1..Len(q) : q[k] # i) => \A k \in 1..Len(q) : q[k] < i
  /\ \A n \in {1, 2, 4} :
       /\ get_last_finished(jobs, n) # {}
       /\ \A s \in get_last_finished(jobs, n) :
            /\ Len(s) = Min(n, Cardinality(FinishedIds(jobs)))
            /\ \A k \in 1..Len(s) : jobs[s[k]].status \in Terminal
            /\ \A k, m \in 1..Len(s) : k # m => s[k] # s[m]
            /\ \A k \in 1..(Len(s) - 1) :
                 jobs[s[k]].finished_at >= jobs[s[k + 1]].finished_at
            /\ \A i \in FinishedIds(jobs) :
                 (\A k \in 1..Len(s) : s[k] # i) =>
                   \A k \in 1..Len(s) :
                     jobs[s[k]].finished_at >= jobs[i].finished_at
  /\ get_running(jobs) # {}
  /\ \A r \in get_running(jobs) :
       IF \E i \in RowIds(jobs) : jobs[i].status = "running"
       THEN r \in RowIds(jobs) /\ jobs[r].status = "running"
       ELSE r = NoJob

\* C27 witness: job 1 was canceled at time 1, job 2 finished at time 2 and
\* job 3 is queued: the most recently finished row comes first and a limit
\* of 1 cuts the list
C27_TablesToProject ==
  /\ Len(jobs) = 3
  /\ jobs[1].status = "canceled" /\ jobs[1].finished_at = 1
  /\ jobs[2].status = "done" /\ jobs[2].finished_at = 2
  /\ get_last_finished(jobs, 1) = {<<2>>}
  /\ get_last_finished(jobs, 4) = {<<2, 1>>}
  /\ get_queued(jobs, 500) = <<3>>
  /\ get_running(jobs) = {NoJob}

\* C28: a cancel and a claim of the same queued job have one winner: a
\* 'canceled' row was never returned by claim_next_job, was never started,
\* and no worker holds it or has fetched it; a row a claim has fetched or
\* returned is not 'canceled', and cancel_job leaves a running row as it is
C28_CancelOrClaim ==
  \A i \in RowIds(jobs) :
    /\ jobs[i].status = "canceled" =>
         /\ returned[i] = 0
         /\ jobs[i].started_at = NULL /\ jobs[i].log_path = NULLT
         /\ \A w \in Workers : job[w] # i /\ row[w] # i
    /\ (returned[i] > 0 \/ \E w \in Workers : row[w] = i \/ job[w] = i) =>
         jobs[i].status # "canceled"
    /\ jobs[i].status = "running" => cancel_job(jobs, i, now) = jobs

\* C28 witness: both outcomes side by side: the cancel of job 1 came first
\* and the claim passed it over; the claim of job 2 came first and the row
\* is running in the worker's hands
C28_BothOutcomes ==
  /\ Len(jobs) >= 2
  /\ jobs[1].status = "canceled" /\ returned[1] = 0
  /\ jobs[2].status = "running" /\ returned[2] = 1
  /\ \E w \in Workers : job[w] = 2 /\ pc[w] = "body"

\* C29: with a worker loop that keeps running and is not killed, every
\* queued row eventually leaves 'queued', and every running row eventually
\* becomes 'done' or 'failed'
C29_QueuedEventuallyLeaves ==
  \A i \in Ids :
    /\ (i \in RowIds(jobs) /\ jobs[i].status = "queued") ~>
         (i \in RowIds(jobs) /\ jobs[i].status # "queued")
    /\ (i \in RowIds(jobs) /\ jobs[i].status = "running") ~>
         (i \in RowIds(jobs) /\ jobs[i].status \in {"done", "failed"})

\* C30: no internal error of a worker that is not killed leaves a row stuck:
\* every running row is in the hands of a living worker, which goes on to
\* mark it
C30_NoRowStuckRunning ==
  \A i \in RowIds(jobs) :
    jobs[i].status = "running" => \E w \in Workers : Alive(w) /\ job[w] = i
====
